---- MODULE Spec2Model ----
(***************************************************************************)
(* Model of sky_view/functionality.py and the toggle logic of              *)
(* sky_view/main.py.  Numbers coming from the weather provider are         *)
(* decimal literals with two fractional digits; they are represented as    *)
(* integers in hundredths (5.55 is 555).  Python's float formatting        *)
(* rounds the exact binary double, so the direction in which the nearest   *)
(* double lies from the decimal literal is computed below.                 *)
(***************************************************************************)
EXTENDS Integers, Sequences, FiniteSets, TLC

VARIABLES fin, fpred, fout, fdone
VARIABLES presp, ppred, pout, pdone
VARIABLES color_today, color_tomorrow, toggle_state, tinit, tcount, tmode, tfp, tshown
VARIABLES gpred, gpc, gnow, greqs, gi, gfeatures, gresult, gret, gexc, gparsed, gcountry

fvars == <<fin, fpred, fout, fdone>>
pvars == <<presp, ppred, pout, pdone>>
tvars == <<color_today, color_tomorrow, toggle_state, tinit, tcount, tmode, tfp, tshown>>
gvars == <<gpred, gpc, gnow, greqs, gi, gfeatures, gresult, gret, gexc, gparsed, gcountry>>

ParseIdle ==
    /\ presp = <<>>
    /\ ppred = FALSE
    /\ pout = <<>>
    /\ pdone = FALSE

NoDate == -1

FetchIdle ==
    /\ gpred = FALSE
    /\ gpc = "idle"
    /\ gnow = NoDate
    /\ greqs = <<>>
    /\ gi = 0
    /\ gfeatures = <<>>
    /\ gresult = <<>>
    /\ gret = NoDate
    /\ gexc = "none"
    /\ gparsed = {}
    /\ gcountry = "none"

Unset == "unset"

ToggleIdle ==
    /\ color_today = Unset
    /\ color_tomorrow = Unset
    /\ toggle_state = FALSE
    /\ tinit = FALSE
    /\ tcount = 0
    /\ tmode = "none"
    /\ tfp = FALSE
    /\ tshown = FALSE

FormatIdle ==
    /\ fin = <<>>
    /\ fpred = FALSE
    /\ fout = [ok |-> TRUE, val |-> <<>>]
    /\ fdone = FALSE

(***************************************************************************)
(* Python dict helpers                                                     *)
(***************************************************************************)
Update(d, u) == [k \in DOMAIN d \cup DOMAIN u |-> IF k \in DOMAIN u THEN u[k] ELSE d[k]]

(* the dict d without key k (builds inputs; Python's del is modelled by   *)
(* the KeyError checks of the operations)                                *)
Without(d, k) == [j \in DOMAIN d \ {k} |-> d[j]]

Err(e) == [ok |-> FALSE, exc |-> e]

(* a Python float n/100 with its IEEE sign bit; -0.0 is [n |-> 0, neg |-> TRUE] *)
Flt(n) == [n |-> n, neg |-> n < 0]

NegZero == [n |-> 0, neg |-> TRUE]

(***************************************************************************)
(* Binary double nearest to n/100 (n > 0): sign of double - n/100.         *)
(***************************************************************************)
Denom == 100

RECURSIVE ExpUp(_, _)
ExpUp(n, e) == IF Denom * 2^(e + 1) <= n THEN ExpUp(n, e + 1) ELSE e

RECURSIVE ExpDown(_, _)
ExpDown(n, j) == IF n * 2^j >= Denom THEN j ELSE ExpDown(n, j + 1)

BinExp(n) == IF n >= Denom THEN ExpUp(n, 0) ELSE -ExpDown(n, 1)

RECURSIVE MulPow2Mod(_, _, _)
MulPow2Mod(r, k, m) ==
    IF k = 0 THEN r % m
    ELSE IF k >= 8 THEN MulPow2Mod((r * 256) % m, k - 8, m)
    ELSE MulPow2Mod((2 * r) % m, k - 1, m)

MantBits == 52

DoubleDir(n) ==
    IF n = 0 THEN 0
    ELSE LET k == MantBits - BinExp(n)
             r == MulPow2Mod(n % Denom, k, Denom)
             low == MulPow2Mod(n % (2 * Denom), k, 2 * Denom) \div Denom
         IN IF r = 0 THEN 0
            ELSE IF 2 * r > Denom \/ (2 * r = Denom /\ low = 1) THEN 1 ELSE -1

RoundMagDecimal(n, prec) ==
    LET a == IF n < 0 THEN -n ELSE n
    IN (a * 10^prec + Denom \div 2) \div Denom

(* round(|n|/100, prec) * 10^prec, as format(float, '.<prec>f') rounds *)
RoundMag(n, prec) ==
    LET a == IF n < 0 THEN -n ELSE n
        m == a * 10^prec
        q == m \div Denom
        rem == m % Denom
    IN IF 2 * rem < Denom THEN q
       ELSE IF 2 * rem > Denom THEN q + 1
       ELSE IF DoubleDir(a) > 0 THEN q + 1
       ELSE IF DoubleDir(a) < 0 THEN q
       ELSE q + (q % 2)

RECURSIVE ZPad(_, _)
ZPad(s, w) == IF Len(s) >= w THEN s ELSE ZPad("0" \o s, w)

(* f"{x:.<prec>f}" for a float x; the sign bit is printed, so -0.0 gives "-0.0" *)
FmtFixed(x, prec) ==
    LET q == RoundMag(x.n, prec)
        sgn == IF x.neg THEN "-" ELSE ""
    IN IF prec = 0 THEN sgn \o ToString(q)
       ELSE sgn \o ToString(q \div 10^prec) \o "." \o ZPad(ToString(q % 10^prec), prec)

(* f"{x:.0%}" : x * 100 formatted with 0 decimals, then "%" *)
FmtPercent(x) == FmtFixed([n |-> x.n * 100, neg |-> x.neg], 0) \o "%"

(***************************************************************************)
(* formated_weather_data(data, for_predict)                                *)
(***************************************************************************)
ClampRainNone(r) == r

(* 0.00 if data["Rainfall"] < 0 else data["Rainfall"] *)
ClampRain(r) == IF r.n < 0 THEN Flt(0) ELSE r

(* keys formated_weather_data reads (or deletes): data[k] and del data[k] *)
(* raise KeyError when one is missing                                    *)
FormatReadKeys(for_predict) ==
    {"Rainfall", "MinTemp", "MaxTemp", "WindGustSpeed", "WindSpeed9am", "WindSpeed3pm",
     "Pressure9am", "Pressure3pm", "Temp9am", "Temp3pm"}
    \cup (IF for_predict THEN {"RainToday"}
          ELSE {"Humidity9am", "Humidity3pm", "Cloud9am", "Cloud3pm", "text", "icon"})

formated_weather_data(data, for_predict) ==
    IF ~(FormatReadKeys(for_predict) \subseteq DOMAIN data) THEN Err("KeyError")
    ELSE
    LET d1 == Update(data, "Rainfall" :> ClampRain(data["Rainfall"]))
        d2 == Update(d1,
                ("MinTemp" :> (FmtFixed(d1["MinTemp"], 1) \o "°C")) @@
                ("MaxTemp" :> (FmtFixed(d1["MaxTemp"], 1) \o "°C")) @@
                ("Rainfall" :> (FmtFixed(d1["Rainfall"], 2) \o "mm")) @@
                ("WindGustSpeed" :> (FmtFixed(d1["WindGustSpeed"], 1) \o "kph")) @@
                ("WindSpeed9am" :> (FmtFixed(d1["WindSpeed9am"], 1) \o "kph")) @@
                ("WindSpeed3pm" :> (FmtFixed(d1["WindSpeed3pm"], 1) \o "kph")) @@
                ("Pressure9am" :> (FmtFixed(d1["Pressure9am"], 1) \o "hPa")) @@
                ("Pressure3pm" :> (FmtFixed(d1["Pressure3pm"], 1) \o "hPa")) @@
                ("Temp9am" :> (FmtFixed(d1["Temp9am"], 1) \o "°C")) @@
                ("Temp3pm" :> (FmtFixed(d1["Temp3pm"], 1) \o "°C")))
    IN IF for_predict
       THEN [ok |-> TRUE, val |-> Update(d2, "RainToday" :> FmtPercent(d2["RainToday"]))]
       ELSE [ok |-> TRUE, val |-> Without(Without(Update(d2,
                ("Humidity9am" :> (FmtFixed(d2["Humidity9am"], 0) \o "%")) @@
                ("Humidity3pm" :> (FmtFixed(d2["Humidity3pm"], 0) \o "%")) @@
                ("Cloud9am" :> (FmtFixed(d2["Cloud9am"], 0) \o "%")) @@
                ("Cloud3pm" :> (FmtFixed(d2["Cloud3pm"], 0) \o "%"))), "text"), "icon")]

(***************************************************************************)
(* Inputs of formated_weather_data: the display record built by            *)
(* parse_history_response (for_predict = FALSE) or the JSON record the     *)
(* prediction service returns (for_predict = TRUE).                        *)
(***************************************************************************)
RainfallVals == {Flt(-50), Flt(-1), NegZero, Flt(0), Flt(1), Flt(120)}
MinTempVals == {Flt(555), Flt(25), Flt(-4), NegZero, Flt(1000)}
OtherVals == {Flt(5), Flt(1235)}
PctVals == {Flt(55), Flt(3)}

CommonFields(mn, rf, o) ==
    ("MaxTemp" :> o) @@ ("MinTemp" :> mn) @@ ("Rainfall" :> rf) @@
    ("WindGustSpeed" :> o) @@ ("WindSpeed9am" :> o) @@ ("WindSpeed3pm" :> o) @@
    ("Pressure9am" :> o) @@ ("Pressure3pm" :> o) @@ ("Temp9am" :> o) @@
    ("Temp3pm" :> o) @@ ("WindDir9am" :> "N") @@ ("WindDir3pm" :> "SSW")

DisplayInputs ==
    { CommonFields(mn, rf, o) @@ ("Humidity9am" :> h) @@ ("Humidity3pm" :> h) @@
        ("Cloud9am" :> h) @@ ("Cloud3pm" :> h) @@ ("RainToday" :> rt) @@
        ("text" :> "Sunny") @@ ("icon" :> "//cdn/113.png")
      : mn \in MinTempVals, rf \in RainfallVals, o \in OtherVals,
        h \in {Flt(6500), Flt(5050)}, rt \in {"Yes", "No"} }

PredictInputs ==
    { CommonFields(mn, rf, o) @@ ("RainToday" :> p)
      : mn \in MinTempVals, rf \in RainfallVals, o \in OtherVals, p \in PctVals }

FormatInit ==
    /\ \/ fpred = FALSE /\ fin \in DisplayInputs \cup {Without(d, "text") : d \in DisplayInputs}
       \/ fpred = TRUE /\ fin \in PredictInputs
    /\ fout = [ok |-> TRUE, val |-> fin]
    /\ fdone = FALSE
    /\ ParseIdle
    /\ FetchIdle
    /\ ToggleIdle

Format ==
    /\ ~fdone
    /\ fout' = formated_weather_data(fin, fpred)
    /\ fdone' = TRUE
    /\ UNCHANGED <<fin, fpred>>
    /\ UNCHANGED <<pvars, gvars, tvars>>

FormatNext == Format

FormatSpec == FormatInit /\ [][FormatNext]_<<fvars, pvars, gvars, tvars>>

(* C1: after formated_weather_data, Rainfall is a non-negative number      *)
(* formatted with 2 decimals and the suffix "mm"; a negative input gives   *)
(* "0.00mm".  -0.0 is not negative (-0.0 < 0 is false): it is kept and     *)
(* printed with its sign bit as "-0.00mm".                                 *)
C1_RainfallNonNegative ==
    (fdone /\ fout.ok) =>
        /\ \E x \in {Flt(v) : v \in 0..1000} \cup {NegZero} : fout.val["Rainfall"] = FmtFixed(x, 2) \o "mm"
        /\ (fin["Rainfall"].n < 0 => fout.val["Rainfall"] = "0.00mm")

C1_Witness == fdone /\ fout.ok /\ fin["Rainfall"] = Flt(-50)

(* C8 (as stated): MinTemp 5.55 is formatted as "5.6°C".                   *)
C8_Claimed == (fdone /\ fout.ok /\ fin["MinTemp"] = Flt(555)) => fout.val["MinTemp"] = "5.6°C"

(* C8 (amended): temperatures are formatted with 1 decimal by rounding the *)
(* binary double: 5.55 (stored as 5.5499...) gives "5.5°C", the exactly    *)
(* representable tie 0.25 gives "0.2°C" (half to even), -0.04 gives        *)
(* "-0.0°C".                                                               *)
C8_MinTempRounding ==
    (fdone /\ fout.ok) =>
        /\ (fin["MinTemp"] = Flt(555) => fout.val["MinTemp"] = "5.5°C")
        /\ (fin["MinTemp"] = Flt(25) => fout.val["MinTemp"] = "0.2°C")
        /\ (fin["MinTemp"] = Flt(-4) => fout.val["MinTemp"] = "-0.0°C")

C8_Witness == fdone /\ fout.ok /\ fin["MinTemp"] = Flt(555)

(***************************************************************************)
(* parse_history_response(response, for_predict)                           *)
(* A response is the provider's JSON: forecast.forecastday[0] holds "day"  *)
(* and "hour"; an hourly "time" "YYYY-MM-DD HH:MM" is kept as its fields.  *)
(* The result is [ok |-> TRUE, val |-> dict] or [ok |-> FALSE, exc |-> e]. *)
(***************************************************************************)
day_feature_names == <<"maxtemp_c", "mintemp_c", "totalprecip_mm">>

hour_feature_names == <<"wind_kph", "pressure_mb", "temp_c", "wind_dir", "humidity", "cloud">>

need_times_9only == {[h |-> 9, m |-> 0]}

need_times == {[h |-> 9, m |-> 0], [h |-> 15, m |-> 0]}

StrpTimeHourOnly(t) == [h |-> t.hh, m |-> 0]

(* datetime.strptime(s, "%Y-%m-%d %H:%M").time() *)
StrpTime(t) == [h |-> t.hh, m |-> t.mm]

(* time.strftime("%I%p") in the C locale *)
StrfTimeIp(t) ==
    LET h12 == IF t.h % 12 = 0 THEN 12 ELSE t.h % 12
    IN ZPad(ToString(h12), 2) \o (IF t.h < 12 THEN "AM" ELSE "PM")

Range(s) == {s[i] : i \in DOMAIN s}

RECURSIVE SeqMax(_)
SeqMax(s) == IF Len(s) = 1 THEN Head(s)
             ELSE LET r == SeqMax(Tail(s)) IN IF Head(s) >= r THEN Head(s) ELSE r

feature_names_encoder ==
    ("maxtemp_c" :> "MaxTemp") @@ ("mintemp_c" :> "MinTemp") @@
    ("totalprecip_mm" :> "Rainfall") @@ ("max_gust" :> "WindGustSpeed") @@
    ("wind_kph09AM" :> "WindSpeed9am") @@ ("wind_kph03PM" :> "WindSpeed3pm") @@
    ("pressure_mb09AM" :> "Pressure9am") @@ ("pressure_mb03PM" :> "Pressure3pm") @@
    ("temp_c09AM" :> "Temp9am") @@ ("temp_c03PM" :> "Temp3pm") @@
    ("wind_dir09AM" :> "WindDir9am") @@ ("wind_dir03PM" :> "WindDir3pm") @@
    ("humidity09AM" :> "Humidity9am") @@ ("humidity03PM" :> "Humidity3pm") @@
    ("cloud09AM" :> "Cloud9am") @@ ("cloud03PM" :> "Cloud3pm") @@
    ("rain_today" :> "RainToday")

(* days in month mo of year y (Gregorian calendar) *)
DaysInMonth(y, mo) ==
    IF mo = 2 THEN (IF (y % 4 = 0 /\ y % 100 # 0) \/ y % 400 = 0 THEN 29 ELSE 28)
    ELSE IF mo \in {4, 6, 9, 11} THEN 30 ELSE 31

(* strptime(s, "%Y-%m-%d %H:%M") raises ValueError unless s has that shape *)
(* (t has its fields; a string of another shape is kept as [raw |-> s])   *)
(* and denotes a valid date and time                                      *)
TimeWellFormed(t) ==
    /\ {"y", "mo", "dd", "hh", "mm"} \subseteq DOMAIN t
    /\ t.y \in 1..9999
    /\ t.mo \in 1..12
    /\ t.dd \in 1..DaysInMonth(t.y, t.mo)
    /\ t.hh \in 0..23
    /\ t.mm \in 0..59

(* the "for hour in forecast_data['hour']" loop: [ok, pd, gusts] or an    *)
(* exception (hour["gust_kph"], hour["time"], strptime, hour[k])          *)
RECURSIVE ScanHours(_, _, _)
ScanHours(hours, pd, gusts) ==
    IF hours = <<>> THEN [ok |-> TRUE, pd |-> pd, gusts |-> gusts]
    ELSE LET hour == Head(hours)
         IN IF "gust_kph" \notin DOMAIN hour THEN Err("KeyError")
            ELSE IF "time" \notin DOMAIN hour THEN Err("KeyError")
            ELSE IF ~TimeWellFormed(hour.time) THEN Err("ValueError")
            ELSE
            LET iter_time == StrpTime(hour.time)
                str_time == StrfTimeIp(iter_time)
            IN IF iter_time \in need_times
                  /\ \E i \in DOMAIN hour_feature_names : hour_feature_names[i] \notin DOMAIN hour
               THEN Err("KeyError")
               ELSE
               LET pd2 == IF iter_time \in need_times
                          THEN Update(pd, [k \in {hour_feature_names[i] \o str_time
                                                   : i \in DOMAIN hour_feature_names}
                                           |-> hour[CHOOSE f \in Range(hour_feature_names) :
                                                       f \o str_time = k]])
                          ELSE pd
               IN ScanHours(Tail(hours), pd2, Append(gusts, hour.gust_kph))

RainFlagGe(precip) == IF precip >= 0 THEN 1 ELSE 0

(* 1 if parse_dict["totalprecip_mm"] > 0 else 0 *)
RainFlag(precip) == IF precip > 0 THEN 1 ELSE 0

(* the remainder of parse_history_response once forecast_data is known *)
ParseForecastDay(forecast_data, for_predict) ==
    IF "day" \notin DOMAIN forecast_data THEN Err("KeyError")
    ELSE IF \E i \in DOMAIN day_feature_names : day_feature_names[i] \notin DOMAIN forecast_data.day
    THEN Err("KeyError")
    ELSE IF "hour" \notin DOMAIN forecast_data THEN Err("KeyError")
    ELSE
    LET pd0 == [k \in Range(day_feature_names) |-> forecast_data.day[k]]
        scan == ScanHours(forecast_data.hour, pd0, <<>>)
    IN IF ~scan.ok THEN scan
       ELSE IF scan.gusts = <<>> THEN Err("ValueError")
       ELSE
       LET pd1 == Update(scan.pd, ("max_gust" :> SeqMax(scan.gusts)) @@
                     ("rain_today" :> RainFlag(scan.pd["totalprecip_mm"])))
       IN IF for_predict THEN [ok |-> TRUE, val |-> pd1]
          ELSE IF "condition" \notin DOMAIN forecast_data.day THEN Err("KeyError")
          ELSE IF ~({"text", "icon"} \subseteq DOMAIN forecast_data.day.condition) THEN Err("KeyError")
          ELSE
          LET condition_data == forecast_data.day.condition
              renamed == [n \in {feature_names_encoder[j] : j \in DOMAIN pd1} |->
                            pd1[CHOOSE j \in DOMAIN pd1 : feature_names_encoder[j] = n]]
              disp == Update(renamed, ("text" :> condition_data.text) @@ ("icon" :> condition_data.icon))
          IN [ok |-> TRUE, val |-> Update(disp, "RainToday" :> (IF disp["RainToday"] = 1 THEN "Yes" ELSE "No"))]

parse_history_response(response, for_predict) ==
    IF "forecast" \notin DOMAIN response THEN Err("KeyError")
    ELSE IF "forecastday" \notin DOMAIN response.forecast THEN Err("KeyError")
    ELSE IF response.forecast.forecastday = <<>> THEN Err("IndexError")
    ELSE ParseForecastDay(response.forecast.forecastday[1], for_predict)

(***************************************************************************)
(* Inputs of parse_history_response                                        *)
(***************************************************************************)
MaxHours == 3
HourTimes == {[hh |-> 9, mm |-> 0], [hh |-> 15, mm |-> 0], [hh |-> 9, mm |-> 30], [hh |-> 21, mm |-> 0]}
HourVals == {10, 20}
PrecipVals == {-10, 0, 120}

MkHour(t, v) ==
    [time |-> [y |-> 2024, mo |-> 5, dd |-> 1] @@ t, gust_kph |-> v + 5, wind_kph |-> v,
     pressure_mb |-> 100000 + v, temp_c |-> v + 1, wind_dir |-> IF v = 10 THEN "N" ELSE "SW",
     humidity |-> v + 2, cloud |-> v + 3]

HourEntries == {MkHour(t, v) : t \in HourTimes, v \in HourVals}

HourLists == UNION {[1..n -> HourEntries] : n \in 0..MaxHours}

MkResponse(hours, precip) ==
    [forecast |-> [forecastday |-> <<[day |-> [maxtemp_c |-> 2210, mintemp_c |-> 1150,
        totalprecip_mm |-> precip, condition |-> [text |-> "Sunny", icon |-> "//cdn/113.png"]],
        hour |-> hours]>>]]

(* responses with one missing or malformed field *)
BaseHours == <<MkHour([hh |-> 9, mm |-> 0], 10), MkHour([hh |-> 21, mm |-> 0], 20),
               MkHour([hh |-> 15, mm |-> 0], 20)>>

BaseDay == MkResponse(BaseHours, 120).forecast.forecastday[1]

WithDay(fd) == [forecast |-> [forecastday |-> <<fd>>]]

WithHour(i, h) == WithDay([BaseDay EXCEPT !.hour[i] = h])

BrokenResponses ==
    { [forecast |-> [forecastday |-> <<>>]],
      WithDay(Without(BaseDay, "day")),
      WithDay(Without(BaseDay, "hour")),
      WithDay([BaseDay EXCEPT !.day = Without(@, "mintemp_c")]),
      WithDay([BaseDay EXCEPT !.day = Without(@, "condition")]),
      WithDay([BaseDay EXCEPT !.day.condition = Without(@, "icon")]),
      WithHour(2, Without(BaseHours[2], "gust_kph")),
      WithHour(1, Without(BaseHours[1], "time")),
      WithHour(3, [BaseHours[3] EXCEPT !.time = [raw |-> "2024-05-01 3pm"]]),
      WithHour(2, [BaseHours[2] EXCEPT !.time.hh = 24]),
      WithHour(2, [BaseHours[2] EXCEPT !.time.mm = 60]),
      WithHour(1, [BaseHours[1] EXCEPT !.time.mo = 2, !.time.dd = 30]),
      WithHour(1, Without(BaseHours[1], "cloud")),
      WithHour(2, Without(BaseHours[2], "cloud")) }

ParseInit ==
    /\ presp \in {MkResponse(hs, pr) : hs \in HourLists, pr \in PrecipVals} \cup BrokenResponses
    /\ ppred \in BOOLEAN
    /\ pout = <<>>
    /\ pdone = FALSE
    /\ FormatIdle
    /\ FetchIdle
    /\ ToggleIdle

Parse ==
    /\ ~pdone
    /\ pout' = parse_history_response(presp, ppred)
    /\ pdone' = TRUE
    /\ UNCHANGED <<presp, ppred>>
    /\ UNCHANGED <<fvars, gvars, tvars>>

ParseNext == Parse

ParseSpec == ParseInit /\ [][ParseNext]_<<fvars, pvars, gvars, tvars>>

FeatureKeys ==
    {"mintemp_c", "maxtemp_c", "totalprecip_mm", "max_gust",
     "wind_kph09AM", "wind_kph03PM", "pressure_mb09AM", "pressure_mb03PM",
     "temp_c09AM", "temp_c03PM", "wind_dir09AM", "wind_dir03PM",
     "humidity09AM", "humidity03PM", "cloud09AM", "cloud03PM", "rain_today"}

DisplayKeys ==
    {"MaxTemp", "MinTemp", "Rainfall", "WindGustSpeed", "WindSpeed9am", "WindSpeed3pm",
     "Pressure9am", "Pressure3pm", "Temp9am", "Temp3pm", "WindDir9am", "WindDir3pm",
     "Humidity9am", "Humidity3pm", "Cloud9am", "Cloud3pm", "RainToday", "text", "icon"}

PHours == presp.forecast.forecastday[1].hour

PPrecip == presp.forecast.forecastday[1].day.totalprecip_mm

HasHourAt(h) == \E i \in DOMAIN PHours : PHours[i].time.hh = h /\ PHours[i].time.mm = 0

(* C2 (as stated): parse_history_response either fails or returns exactly *)
(* the 17 feature keys (for_predict) / the 17 display keys plus text and  *)
(* icon with RainToday in {"Yes","No"}.                                   *)
C2_Claimed ==
    (pdone /\ pout.ok) =>
        IF ppred THEN DOMAIN pout.val = FeatureKeys
        ELSE DOMAIN pout.val = DisplayKeys /\ pout.val["RainToday"] \in {"Yes", "No"}

PFD == presp.forecast.forecastday[1]

(* a field parse_history_response reads is missing or malformed *)
ReadFieldMissing ==
    \/ presp.forecast.forecastday = <<>>
    \/ "day" \notin DOMAIN PFD
    \/ "hour" \notin DOMAIN PFD
    \/ ~({"maxtemp_c", "mintemp_c", "totalprecip_mm"} \subseteq DOMAIN PFD.day)
    \/ \E i \in DOMAIN PFD.hour :
          LET h == PFD.hour[i]
          IN \/ "gust_kph" \notin DOMAIN h
             \/ "time" \notin DOMAIN h
             \/ ~({"y", "mo", "dd", "hh", "mm"} \subseteq DOMAIN h.time)
             \/ h.time.hh \notin 0..23 \/ h.time.mm \notin 0..59
             \/ h.time.y \notin 1..9999 \/ h.time.mo \notin 1..12
             \/ h.time.dd < 1
             \/ h.time.dd > CASE h.time.mo = 2 -> IF h.time.y % 4 = 0 /\ (h.time.y % 100 # 0 \/ h.time.y % 400 = 0)
                                                  THEN 29 ELSE 28
                               [] h.time.mo \in {4, 6, 9, 11} -> 30
                               [] OTHER -> 31
             \/ (h.time.hh \in {9, 15} /\ h.time.mm = 0
                 /\ ~({"wind_kph", "pressure_mb", "temp_c", "wind_dir", "humidity", "cloud"} \subseteq DOMAIN h))
    \/ (~ppred /\ \/ "condition" \notin DOMAIN PFD.day
                  \/ ~({"text", "icon"} \subseteq DOMAIN PFD.day.condition))

(* C2 (amended): parse_history_response raises (KeyError, IndexError or   *)
(* ValueError) exactly when a field it reads is missing or malformed or   *)
(* the hourly list is empty; otherwise the record has the 17 feature keys *)
(* (resp. the 17 display keys plus text and icon, RainToday in            *)
(* {"Yes","No"}) when there is a 09:00 and a 15:00 entry, while a missing *)
(* 09:00 or 15:00 entry raises nothing and drops its six keys.            *)
C2_KeySet ==
    pdone =>
        /\ (~pout.ok <=> (ReadFieldMissing \/ PFD.hour = <<>>))
        /\ (pout.ok =>
              LET missing == {k \in FeatureKeys :
                                \/ (~HasHourAt(9) /\ k \in {hour_feature_names[i] \o "09AM" : i \in 1..6})
                                \/ (~HasHourAt(15) /\ k \in {hour_feature_names[i] \o "03PM" : i \in 1..6})}
              IN IF ppred THEN DOMAIN pout.val = FeatureKeys \ missing
                 ELSE /\ DOMAIN pout.val = DisplayKeys \ {feature_names_encoder[k] : k \in missing}
                      /\ pout.val["RainToday"] \in {"Yes", "No"})

C2_Witness == pdone /\ pout.ok /\ ~HasHourAt(15) /\ HasHourAt(9)

(* C3: rain_today is 1 iff totalprecip_mm > 0 (0 otherwise, also at       *)
(* exactly 0); the display RainToday is "Yes" iff totalprecip_mm > 0.      *)
C3_RainToday ==
    (pdone /\ pout.ok) =>
        IF ppred THEN pout.val["rain_today"] = (IF PPrecip > 0 THEN 1 ELSE 0)
        ELSE pout.val["RainToday"] = (IF PPrecip > 0 THEN "Yes" ELSE "No")

C3_Witness == pdone /\ pout.ok /\ PPrecip = 0 /\ ~ppred

(* C9: the *09AM / *03PM keys come only from hourly entries at exactly     *)
(* 09:00 / 15:00; with several such entries the last one in list order    *)
(* wins; with none the keys are absent.                                    *)
LastAt(h) == CHOOSE i \in DOMAIN PHours :
                /\ PHours[i].time.hh = h /\ PHours[i].time.mm = 0
                /\ \A j \in DOMAIN PHours : j > i => ~(PHours[j].time.hh = h /\ PHours[j].time.mm = 0)

KeyName(k) == IF ppred THEN k ELSE feature_names_encoder[k]

C9_HourExtraction ==
    (pdone /\ pout.ok) =>
        \A hs \in {<<9, "09AM">>, <<15, "03PM">>} : \A i \in 1..6 :
            LET f == hour_feature_names[i]
                key == KeyName(f \o hs[2])
            IN IF HasHourAt(hs[1])
               THEN key \in DOMAIN pout.val /\ pout.val[key] = PHours[LastAt(hs[1])][f]
               ELSE key \notin DOMAIN pout.val

C9_Witness ==
    /\ pdone /\ pout.ok
    /\ \E i, j \in DOMAIN PHours :
          /\ i < j /\ PHours[i].time.hh = 9 /\ PHours[j].time.hh = 9
          /\ PHours[i].time.mm = 0 /\ PHours[j].time.mm = 0
          /\ PHours[i].wind_kph # PHours[j].wind_kph

(***************************************************************************)
(* get_weather_data(location, for_predict): one action per provider call. *)
(* greqs logs each request with the response it got: endpoint, date (dt), *)
(* status, whether the body is JSON, and the body of a history response.  *)
(***************************************************************************)
Statuses == {200, 300, 400, 404, 500, 600}
TodayVals == {100, 131}
Countries == {"Australia", "New Zealand"}

GoodBody(pr) ==
    MkResponse(<<MkHour([hh |-> 9, mm |-> 0], 10), MkHour([hh |-> 15, mm |-> 0], 20)>>, pr)

(* responses of the history endpoint: [st |-> status, js |-> body is JSON, body] *)
HistResponses ==
    {[st |-> 200, js |-> TRUE, body |-> GoodBody(pr)] : pr \in {0, 120}}
    \cup {[st |-> 300, js |-> TRUE, body |-> GoodBody(0)],
          [st |-> 200, js |-> TRUE, body |-> MkResponse(<<MkHour([hh |-> 9, mm |-> 0], 10)>>, 0)],
          [st |-> 200, js |-> TRUE, body |-> MkResponse(<<>>, 0)],
          [st |-> 200, js |-> FALSE, body |-> <<>>]}
    \cup {[st |-> st, js |-> js, body |-> <<>>] : st \in {400, 404, 500}, js \in BOOLEAN}

n_days == 7

features_order_swapped ==
    <<"maxtemp_c", "mintemp_c", "totalprecip_mm", "max_gust",
      "wind_kph09AM", "wind_kph03PM", "pressure_mb09AM", "pressure_mb03PM",
      "temp_c09AM", "temp_c03PM", "wind_dir09AM", "wind_dir03PM",
      "humidity09AM", "humidity03PM", "cloud09AM", "cloud03PM", "rain_today">>

features_order ==
    <<"mintemp_c", "maxtemp_c", "totalprecip_mm", "max_gust",
      "wind_kph09AM", "wind_kph03PM", "pressure_mb09AM", "pressure_mb03PM",
      "temp_c09AM", "temp_c03PM", "wind_dir09AM", "wind_dir03PM",
      "humidity09AM", "humidity03PM", "cloud09AM", "cloud03PM", "rain_today">>

HttpCheckNo400(st) ==
    IF st >= 400 THEN "HTTPError" ELSE "none"

(* if status == 400: raise LocationNotFoundError                          *)
(* elif status > 400: response.raise_for_status(), which raises only for  *)
(* 4xx and 5xx statuses                                                   *)
HttpCheck(st) ==
    IF st = 400 THEN "LocationNotFoundError"
    ELSE IF st > 400 /\ st < 600 THEN "HTTPError"
    ELSE "none"

Raise(e) == gpc' = "raised" /\ gexc' = e

FetchInit ==
    /\ gpred \in BOOLEAN
    /\ gpc = "current"
    /\ gnow = NoDate
    /\ greqs = <<>>
    /\ gi = 0
    /\ gfeatures = <<>>
    /\ gresult = <<>>
    /\ gret = NoDate
    /\ gexc = "none"
    /\ gparsed = {}
    /\ gcountry = "none"
    /\ FormatIdle
    /\ ParseIdle
    /\ ToggleIdle

(* requests.get(current_url) and parse_current_response *)
CurrentCall ==
    /\ gpc = "current"
    /\ \E st \in Statuses, js \in BOOLEAN, country \in Countries, tzok \in BOOLEAN,
          today \in TodayVals :
        /\ greqs' = Append(greqs, [ep |-> "current", dt |-> NoDate, st |-> st, js |-> js, body |-> <<>>])
        /\ IF HttpCheck(st) # "none"
           THEN Raise(HttpCheck(st)) /\ UNCHANGED <<gnow, gparsed, gcountry>>
           ELSE IF ~js
           THEN Raise("JSONDecodeError") /\ UNCHANGED <<gnow, gparsed, gcountry>>
           ELSE /\ gparsed' = gparsed \cup {st}
                /\ IF ~tzok
                   THEN Raise("UnknownTimeZoneError") /\ UNCHANGED <<gnow, gcountry>>
                   ELSE /\ gnow' = today
                        /\ gcountry' = country
                        /\ IF country # "Australia"
                           THEN Raise("LocationNotFoundError")
                           ELSE /\ gpc' = IF gpred THEN "loop" ELSE "today"
                                /\ UNCHANGED gexc
    /\ UNCHANGED <<gpred, gi, gfeatures, gresult, gret>>
    /\ UNCHANGED <<fvars, pvars, tvars>>

(* not for_predict: requests.get(history_url, dt=now_date), parse, return *)
HistoryToday ==
    /\ gpc = "today"
    /\ \E resp \in HistResponses :
       LET st == resp.st
           js == resp.js
           body == resp.body
       IN
        /\ greqs' = Append(greqs, [ep |-> "history", dt |-> gnow, st |-> st, js |-> js, body |-> body])
        /\ IF HttpCheck(st) # "none"
           THEN Raise(HttpCheck(st)) /\ UNCHANGED <<gparsed, gresult, gret>>
           ELSE IF ~js
           THEN Raise("JSONDecodeError") /\ UNCHANGED <<gparsed, gresult, gret>>
           ELSE LET r == parse_history_response(body, FALSE)
                IN /\ gparsed' = gparsed \cup {st}
                   /\ IF ~r.ok
                      THEN Raise(r.exc) /\ UNCHANGED <<gresult, gret>>
                      ELSE /\ gresult' = r.val
                           /\ gret' = gnow
                           /\ gpc' = "done"
                           /\ UNCHANGED gexc
    /\ UNCHANGED <<gpred, gnow, gi, gfeatures, gcountry>>
    /\ UNCHANGED <<fvars, pvars, tvars>>

(* for_predict: iteration i of "for i in range(n_days)" *)
OnDayErrorSkip(e) == gi' = gi + 1 /\ UNCHANGED <<gpc, gexc, gfeatures, gresult, gret>>

(* an exception inside the loop propagates out of get_weather_data *)
OnDayError(e) == Raise(e) /\ UNCHANGED <<gi, gfeatures, gresult, gret>>

HistoryDay ==
    /\ gpc = "loop"
    /\ gi < n_days
    /\ LET start_date == gnow - 6
           date == start_date + gi
       IN \E resp \in HistResponses :
       LET st == resp.st
           js == resp.js
           body == resp.body
       IN
        /\ greqs' = Append(greqs, [ep |-> "history", dt |-> date, st |-> st, js |-> js, body |-> body])
        /\ IF HttpCheck(st) # "none"
           THEN OnDayError(HttpCheck(st)) /\ UNCHANGED gparsed
           ELSE IF ~js
           THEN OnDayError("JSONDecodeError") /\ UNCHANGED gparsed
           ELSE LET r == parse_history_response(body, TRUE)
                IN /\ gparsed' = gparsed \cup {st}
                   /\ IF ~r.ok
                      THEN OnDayError(r.exc)
                      ELSE IF \E j \in 1..Len(features_order) : features_order[j] \notin DOMAIN r.val
                      THEN OnDayError("KeyError")
                      ELSE LET row == [j \in 1..Len(features_order) |-> r.val[features_order[j]]]
                           IN /\ gfeatures' = Append(gfeatures, row)
                              /\ gi' = gi + 1
                              /\ IF gi + 1 = n_days
                                 THEN /\ gpc' = "done"
                                      /\ gresult' = Append(gfeatures, row)
                                      /\ gret' = gnow + 1
                                 ELSE UNCHANGED <<gpc, gresult, gret>>
                              /\ UNCHANGED gexc
    /\ UNCHANGED <<gpred, gnow, gcountry>>
    /\ UNCHANGED <<fvars, pvars, tvars>>

FetchNext == CurrentCall \/ HistoryToday \/ HistoryDay

FetchSpec == FetchInit /\ [][FetchNext]_<<fvars, pvars, gvars, tvars>>

BodyDay(b) == b.forecast.forecastday[1].day

BodyHours(b) == b.forecast.forecastday[1].hour

BodyHas(b, h) == \E i \in DOMAIN BodyHours(b) : BodyHours(b)[i].time.hh = h /\ BodyHours(b)[i].time.mm = 0

BodyAt(b, h) == BodyHours(b)[CHOOSE i \in DOMAIN BodyHours(b) :
                    BodyHours(b)[i].time.hh = h /\ BodyHours(b)[i].time.mm = 0]

BodyMaxGust(b) == CHOOSE g \in {BodyHours(b)[i].gust_kph : i \in DOMAIN BodyHours(b)} :
                    \A i \in DOMAIN BodyHours(b) : BodyHours(b)[i].gust_kph <= g

(* the 17 values, in the fixed feature order, of a day with one 09:00 and *)
(* one 15:00 entry                                                         *)
ExpectedRow(b) ==
    <<BodyDay(b).mintemp_c, BodyDay(b).maxtemp_c, BodyDay(b).totalprecip_mm, BodyMaxGust(b),
      BodyAt(b, 9).wind_kph, BodyAt(b, 15).wind_kph, BodyAt(b, 9).pressure_mb, BodyAt(b, 15).pressure_mb,
      BodyAt(b, 9).temp_c, BodyAt(b, 15).temp_c, BodyAt(b, 9).wind_dir, BodyAt(b, 15).wind_dir,
      BodyAt(b, 9).humidity, BodyAt(b, 15).humidity, BodyAt(b, 9).cloud, BodyAt(b, 15).cloud,
      IF BodyDay(b).totalprecip_mm > 0 THEN 1 ELSE 0>>

(* C4: a successful get_weather_data(location, True) requested history for *)
(* today-6 .. today in increasing order, returns 7 rows of 17 values in    *)
(* the fixed feature order, row i from the day today-6+i, and today+1.     *)
C4_PredictionMatrix ==
    (gpred /\ gpc = "done") =>
        /\ Len(greqs) = 8
        /\ greqs[1].ep = "current"
        /\ \A i \in 1..7 : greqs[i + 1].ep = "history" /\ greqs[i + 1].dt = gnow - 7 + i
        /\ Len(gresult) = 7
        /\ \A i \in 1..7 : Len(gresult[i]) = 17 /\ gresult[i] = ExpectedRow(greqs[i + 1].body)
        /\ gret = gnow + 1

C4_Witness ==
    /\ gpred /\ gpc = "done"
    /\ \E i, j \in 1..7 : gresult[i][3] # gresult[j][3]

(* C5: a status 400 from either endpoint raises LocationNotFoundError, and *)
(* a current-conditions answer naming a country other than Australia      *)
(* raises LocationNotFoundError before any history request.               *)
C5_LocationNotFound ==
    /\ \A i \in DOMAIN greqs :
          greqs[i].st = 400 =>
             i = Len(greqs) /\ gpc = "raised" /\ gexc = "LocationNotFoundError"
    /\ (gcountry \notin {"none", "Australia"}) =>
          /\ gpc = "raised" /\ gexc = "LocationNotFoundError"
          /\ \A i \in DOMAIN greqs : greqs[i].ep = "current"

C5_Witness ==
    \E i \in DOMAIN greqs : greqs[i].ep = "history" /\ greqs[i].st = 400 /\ gpc = "raised"

(* C6: a response whose status is neither 2xx nor 400 is never parsed as  *)
(* a successful response (every parsed response had a 2xx status).       *)
C6_OnlySuccessParsed == gparsed \subseteq 200..299

HistFailed(r) ==
    \/ r.st = 400
    \/ (r.st > 400 /\ r.st < 600)
    \/ ~r.js
    \/ BodyHours(r.body) = <<>>
    \/ ~BodyHas(r.body, 9)
    \/ ~BodyHas(r.body, 15)

(* C7: the history calls of the prediction path are made one after the    *)
(* other for consecutive dates; every call but the last one made has      *)
(* succeeded, and a failing call ends get_weather_data with an exception  *)
(* and no matrix.                                                          *)
C7_AbortOnFirstFailure ==
    gpred =>
        /\ \A i \in 2..Len(greqs) : greqs[i].ep = "history" /\ greqs[i].dt = gnow - 6 + (i - 2)
        /\ \A i \in 2..(Len(greqs) - 1) : ~HistFailed(greqs[i])
        /\ (gpc = "raised" /\ Len(greqs) >= 2) =>
              /\ HistFailed(greqs[Len(greqs)])
              /\ gresult = <<>> /\ gret = NoDate

C7_Witness == gpred /\ gpc = "raised" /\ Len(greqs) = 5

(***************************************************************************)
(* main.py: the Today/Tomorrow toggle kept in st.session_state.  Every    *)
(* interaction reruns main(); the toggle's on_change callback toggle_logic *)
(* runs before that rerun.  tcount counts toggles, tmode / tfp are the    *)
(* path and for_predict flag chosen by the last "Check the Weather" click, *)
(* tshown the value the toggle widget displayed at that time.             *)
(***************************************************************************)
MaxToggles == 40

toggle_logic_keepstate(s) ==
    [color_today |-> IF s.color_today = "red" THEN "green" ELSE "red",
     color_tomorrow |-> IF s.color_tomorrow = "red" THEN "green" ELSE "red",
     toggle_state |-> s.toggle_state]

toggle_logic(s) ==
    [color_today |-> IF s.color_today = "red" THEN "green" ELSE "red",
     color_tomorrow |-> IF s.color_tomorrow = "red" THEN "green" ELSE "red",
     toggle_state |-> s.toggle_state = FALSE]

(* lines 66-71: session defaults set when the keys are missing; the three *)
(* keys are set together, tinit records that they are present            *)
SessionDefaults ==
    /\ color_today' = IF ~tinit THEN "green" ELSE color_today
    /\ color_tomorrow' = IF ~tinit THEN "red" ELSE color_tomorrow
    /\ toggle_state' = IF ~tinit THEN FALSE ELSE toggle_state

ToggleInit ==
    /\ ToggleIdle
    /\ FormatIdle
    /\ ParseIdle
    /\ FetchIdle

(* a run of main(), with or without a click on "Check the Weather" *)
MainRun ==
    /\ SessionDefaults
    /\ tinit' = TRUE
    /\ \E clicked \in BOOLEAN :
         IF clicked /\ tinit
         THEN /\ tmode' = IF color_today' = "green" THEN "today" ELSE "tomorrow"
              /\ tfp' = (color_today' = "red")
              /\ tshown' = toggle_state'
         ELSE UNCHANGED <<tmode, tfp, tshown>>
    /\ UNCHANGED tcount
    /\ UNCHANGED <<fvars, pvars, gvars>>

(* the user flips the toggle: toggle_logic, then main() reruns *)
Toggle ==
    /\ tinit
    /\ tcount < MaxToggles
    /\ LET s == toggle_logic([color_today |-> color_today, color_tomorrow |-> color_tomorrow,
                              toggle_state |-> toggle_state])
       IN /\ color_today' = s.color_today
          /\ color_tomorrow' = s.color_tomorrow
          /\ toggle_state' = s.toggle_state
    /\ tcount' = tcount + 1
    /\ UNCHANGED <<tinit, tmode, tfp, tshown>>
    /\ UNCHANGED <<fvars, pvars, gvars>>

ToggleNext == MainRun \/ Toggle

ToggleSpec == ToggleInit /\ [][ToggleNext]_<<fvars, pvars, gvars, tvars>>

(* C10: once the session is initialised, the two colours differ,          *)
(* toggle_state is TRUE exactly when color_today is red, and the path main *)
(* takes on a click (today iff color_today is green) agrees with the      *)
(* value the toggle displayed (FALSE = Today).                            *)
C10_ToggleConsistent ==
    tinit =>
        /\ color_today \in {"green", "red"}
        /\ color_today # color_tomorrow
        /\ (toggle_state = TRUE <=> color_today = "red")
        /\ (tmode # "none" => ((tmode = "today") <=> (tshown = FALSE)) /\ (tfp <=> tmode = "tomorrow"))

C10_Witness == tinit /\ tcount >= 3 /\ tmode = "tomorrow"

====
